---- MODULE Spec2Model ----
(***************************************************************************)
(* MindForger Mind (lib/src/mind/mind.cpp): the orchestration state        *)
(* machine (learn / think / sleep / amnesia under the exclusiveMind        *)
(* mutex), the derived caches, and the structural operations on Memory.    *)
(*                                                                         *)
(* Granularity.  A public entry point is two steps: taking the mutex       *)
(* (lock_guard construction) and the guarded body, which ends with the     *)
(* release of the mutex and the return to the caller.  A structural        *)
(* operation (noteNew, outlineNew) takes no mutex; it is two steps, the    *)
(* call (parameters bound) and the body, so that it can be "in flight"     *)
(* while other threads run.  The Inference Collaborator (Ai), Memory and   *)
(* Configuration are not part of mind.cpp; they are modelled from their    *)
(* contracts.                                                              *)
(***************************************************************************)
EXTENDS Integers, Sequences, FiniteSets, TLC

\* ------------------------------------------------------------- bounds
MaxNotes == 2
MaxDwell == 1
MaxProcesses == 1

\* uint16_t "no parent" marker of noteNew's offset parameter
NO_PARENT == 65535

\* the threads that call into Mind
Threads == {1, 2}
NoThread == 0

\* the names and keys the callers use
OutlineNames == {"a"}
NoteNames == {"n"}
KeyIndexes == {0}

\* Configuration::MindState
MindStates == {"SLEEPING", "THINKING", "DREAMING"}

VARIABLES
    mindState,          \* config.getMindState()
    persistedState,     \* what mdConfigRepresentation->save(config) wrote last
    exclusiveMind,      \* holder of the mutex, NoThread when free
    activeProcesses,    \* Mind::activeProcesses
    memory,             \* Memory: outline key -> outline
    allNotesCache,      \* Mind::allNotesCache
    memoryDwell,        \* Mind::memoryDwell
    triples,            \* Mind::triples
    aiHandle,           \* promise behind the future of the last ai->dream()
    aiDreamEntry,       \* the mind state the last ai->dream() was called in
    limbo,              \* forgotten Outlines: limbo key -> outline
    timeScope,          \* Mind::timeScopeAspect
    pc,                 \* per thread: the operation it is inside
    arg,                \* per thread: parameters of the structural operation in flight
    ret                 \* what the last completed call returned, and of which operation

vars == <<mindState, persistedState, exclusiveMind, activeProcesses, memory,
          allNotesCache, memoryDwell, triples, aiHandle, aiDreamEntry, limbo,
          timeScope, pc, arg, ret>>

\* ------------------------------------------------------------- Memory
NoArg == [op |-> "none"]
NoRet == [op |-> "none", val |-> "none"]

DefaultNote == [name |-> "", depth |-> 0]

EmptyMemory == [k \in {} |-> 0]

\* TimeScopeAspect: disabled, or enabled with the time point its window starts at
NoTimeScope == [enabled |-> FALSE, timePoint |-> 0]

\* the repository Memory::learn() loads
Repository == [k \in {<<"a", 0>>} |->
                 [name |-> "a", notes |-> <<[name |-> "n", depth |-> 0]>>]]

\* Memory::getOutline(key): the key is present
HasOutline(mem, key) == key \in DOMAIN mem

\* Memory::remember(outline)
Remember(mem, key, outline) ==
    [k \in DOMAIN mem \cup {key} |-> IF k = key THEN outline ELSE mem[k]]

\* Memory::amnesia(): forget EVERYTHING
MemoryAmnesia(mem) == EmptyMemory

\* Memory::learn(): load the repository
MemoryLearn(mem) == Repository

\* Memory::createOutlineKey(name): a key derived from the name that no
\* outline of Memory has
HasFreeKey(mem, name) == \E i \in KeyIndexes : <<name, i>> \notin DOMAIN mem

CreateOutlineKey(mem, name) ==
    LET free == {i \in KeyIndexes : <<name, i>> \notin DOMAIN mem}
    IN  <<name, CHOOSE i \in free : \A j \in free : i <= j>>

\* Outline::addNote(note, offset): insert at offset, append when past the end
InsertAt(s, offset, e) ==
    IF offset >= Len(s) THEN Append(s, e)
    ELSE SubSeq(s, 1, offset) \o <<e>> \o SubSeq(s, offset + 1, Len(s))

RECURSIVE FlattenKeys(_, _)
FlattenKeys(mem, keys) ==
    IF keys = {} THEN <<>>
    ELSE LET k == CHOOSE x \in keys : \A y \in keys : x[2] <= y[2]
         IN  mem[k].notes \o FlattenKeys(mem, keys \ {k})

\* Memory::getAllNotes(notes)
GetAllNotes(mem) == FlattenKeys(mem, DOMAIN mem)

\* ------------------------------------------------------------- the Mind
\* The fields of Mind (and of the Configuration and Memory it refers to) that
\* the guarded operations read or write, as one record.
Mind ==
    [mindState |-> mindState, persistedState |-> persistedState,
     activeProcesses |-> activeProcesses, memory |-> memory,
     allNotesCache |-> allNotesCache, memoryDwell |-> memoryDwell,
     triples |-> triples, aiHandle |-> aiHandle, aiDreamEntry |-> aiDreamEntry]

Done(r, m) == [ret |-> r, m |-> m]

\* Ai::dream(): starts the inference and returns the future of its promise
AiDream(m) == [m EXCEPT !.aiHandle = "pending", !.aiDreamEntry = m.mindState]

\* mindDream() that hands over to the Ai before it switches to DREAMING
mindDream_HandoffFirst(m) ==
    IF m.mindState = "SLEEPING"
    THEN Done("ai_handle", [AiDream(m) EXCEPT !.mindState = "DREAMING"])
    ELSE Done("resolved_false", m)

\* mindDream() that switches to DREAMING and never calls ai->dream()
mindDream_NoHandoff(m) ==
    IF m.mindState = "SLEEPING"
    THEN Done("ai_handle", [m EXCEPT !.mindState = "DREAMING"])
    ELSE Done("resolved_false", m)

\* Mind::mindDream()
mindDream(m) ==
    IF m.mindState = "SLEEPING"
    THEN Done("ai_handle", AiDream([m EXCEPT !.mindState = "DREAMING"]))
    ELSE Done("resolved_false", m)

\* think() that dreams without looking at the mind state
thinkBody_NoStateCheck(m) ==
    Done("ai_handle", AiDream([m EXCEPT !.mindState = "DREAMING"]))

\* Mind::think(), inside the critical section
thinkBody(m) ==
    IF m.mindState = "SLEEPING"
    THEN mindDream(m)
    ELSE Done("resolved_false", m)

\* mindSleep() whose guard forgets the DREAMING state
mindSleep_IgnoresDreaming(m, aiSleeps) ==
    IF m.activeProcesses = 0 /\ aiSleeps
    THEN Done("true", [m EXCEPT !.allNotesCache = <<>>,
                                !.memoryDwell = <<>>,
                                !.triples = {},
                                !.mindState = "SLEEPING",
                                !.persistedState = "SLEEPING"])
    ELSE Done("false", m)

\* mindSleep() that clears the caches before it asks the Ai
mindSleep_ClearsFirst(m, aiSleeps) ==
    IF m.mindState # "DREAMING" /\ m.activeProcesses = 0
    THEN LET cleared == [m EXCEPT !.allNotesCache = <<>>,
                                  !.memoryDwell = <<>>,
                                  !.triples = {}]
         IN  IF aiSleeps
             THEN Done("true", [cleared EXCEPT !.mindState = "SLEEPING",
                                               !.persistedState = "SLEEPING"])
             ELSE Done("false", cleared)
    ELSE Done("false", m)

\* Mind::mindSleep(); aiSleeps is what ai->sleep() answers
mindSleep(m, aiSleeps) ==
    IF m.mindState # "DREAMING" /\ m.activeProcesses = 0
    THEN IF aiSleeps
         THEN Done("true", [m EXCEPT !.allNotesCache = <<>>,
                                     !.memoryDwell = <<>>,
                                     !.triples = {},
                                     !.mindState = "SLEEPING",
                                     !.persistedState = "SLEEPING"])
         ELSE Done("false", m)
    ELSE Done("false", m)

\* Mind::mindAmnesia(): the result of mindSleep() is not looked at
mindAmnesia(m, aiSleeps) ==
    IF m.mindState # "DREAMING" /\ m.activeProcesses = 0
    THEN LET slept == mindSleep(m, aiSleeps).m
         IN  Done("true", [slept EXCEPT !.memory = MemoryAmnesia(@)])
    ELSE Done("false", m)

\* Mind::learn(), inside the critical section
learnBody(m, aiSleeps) ==
    IF m.mindState # "DREAMING" /\ m.activeProcesses = 0
    THEN LET forgot == mindAmnesia(m, aiSleeps).m
         IN  Done("true", [forgot EXCEPT !.memory = MemoryLearn(@)])
    ELSE Done("false", m)

\* ------------------------------------------------------------- the mutex
\* a lock that does not wait for the holder
Acquire_NoWait(t) == exclusiveMind' = t

\* lock_guard<mutex> criticalSection{exclusiveMind}
Acquire(t) == exclusiveMind = NoThread /\ exclusiveMind' = t

\* an entry point that returns without unlocking
Release_KeepsLock(t) == exclusiveMind' = t

\* ~lock_guard at the end of the entry point
Release(t) == exclusiveMind' = NoThread

GuardedOps == {"learn", "think", "sleep", "amnesia"}

\* a thread calls a public entry point and gets the mutex
Enter(t, op) ==
    /\ pc[t] = "idle"
    /\ Acquire(t)
    /\ pc' = [pc EXCEPT ![t] = op]
    /\ UNCHANGED <<mindState, persistedState, activeProcesses, memory,
                   allNotesCache, memoryDwell, triples, aiHandle,
                   aiDreamEntry, arg, ret, limbo, timeScope>>

\* the guarded body r of the entry point op, then unlock and return
Leave(t, op, r) ==
    /\ pc[t] = op
    /\ mindState' = r.m.mindState
    /\ persistedState' = r.m.persistedState
    /\ memory' = r.m.memory
    /\ allNotesCache' = r.m.allNotesCache
    /\ memoryDwell' = r.m.memoryDwell
    /\ triples' = r.m.triples
    /\ aiHandle' = r.m.aiHandle
    /\ aiDreamEntry' = r.m.aiDreamEntry
    /\ Release(t)
    /\ pc' = [pc EXCEPT ![t] = "idle"]
    /\ ret' = [op |-> op, val |-> r.ret]
    /\ UNCHANGED <<activeProcesses, arg, limbo, timeScope>>

learnLock(t) == Enter(t, "learn")
learn(t) == \E aiSleeps \in BOOLEAN : Leave(t, "learn", learnBody(Mind, aiSleeps))

thinkLock(t) == Enter(t, "think")
think(t) == Leave(t, "think", thinkBody(Mind))

sleepLock(t) == Enter(t, "sleep")
sleep(t) == \E aiSleeps \in BOOLEAN : Leave(t, "sleep", mindSleep(Mind, aiSleeps))

amnesiaLock(t) == Enter(t, "amnesia")
amnesia(t) == \E aiSleeps \in BOOLEAN : Leave(t, "amnesia", mindAmnesia(Mind, aiSleeps))

\* ------------------------------------------------------------- structural operations
InFlight(op) == {t \in Threads : pc[t] = op}

\* Mind::onRemembering()
onRemembering(cache) == <<>>

NoStencil == [given |-> FALSE, notes |-> <<>>]
EmptyStencil == [given |-> TRUE, notes |-> <<>>]
Stencils == {NoStencil, EmptyStencil}

\* outlineNew() that synthesizes no default Note
outlineNewOutline_NoDefaultNote(name, stencil) ==
    [name |-> name, notes |-> stencil.notes]

\* Mind::outlineNew(): the Outline that is remembered (key, name, notes)
outlineNewOutline(name, stencil) ==
    [name |-> name,
     notes |-> IF stencil.notes = <<>> THEN <<DefaultNote>> ELSE stencil.notes]

\* a thread calls outlineNew(name, ..., stencil)
outlineNewCall(t) ==
    /\ pc[t] = "idle"
    /\ \E name \in OutlineNames, stencil \in Stencils :
          arg' = [arg EXCEPT ![t] = [op |-> "outlineNew", name |-> name,
                                     stencil |-> stencil]]
    /\ pc' = [pc EXCEPT ![t] = "outlineNew"]
    /\ UNCHANGED <<mindState, persistedState, exclusiveMind, activeProcesses,
                   memory, allNotesCache, memoryDwell, triples, aiHandle,
                   aiDreamEntry, ret, limbo, timeScope>>

\* Mind::outlineNew()
outlineNew(t) ==
    /\ pc[t] = "outlineNew"
    /\ HasFreeKey(memory, arg[t].name)
    /\ LET key == CreateOutlineKey(memory, arg[t].name)
       IN  memory' = Remember(memory, key,
                              outlineNewOutline(arg[t].name, arg[t].stencil))
    /\ allNotesCache' = onRemembering(allNotesCache)
    /\ pc' = [pc EXCEPT ![t] = "idle"]
    /\ arg' = [arg EXCEPT ![t] = NoArg]
    /\ ret' = [op |-> "outlineNew", val |-> "key"]
    /\ UNCHANGED <<mindState, persistedState, exclusiveMind, activeProcesses,
                   memoryDwell, triples, aiHandle, aiDreamEntry, limbo,
                   timeScope>>

AllKeys == OutlineNames \X KeyIndexes

NoteOffsets == {1, NO_PARENT}

\* a thread calls noteNew(outlineKey, offset, name, ..., depth, ...)
noteNewCall(t) ==
    /\ pc[t] = "idle"
    /\ \E key \in AllKeys, offset \in NoteOffsets, name \in NoteNames :
          /\ key \in DOMAIN memory =>
                Len(memory[key].notes)
                  + Cardinality({u \in InFlight("noteNew") : arg[u].key = key})
                  < MaxNotes
          /\ arg' = [arg EXCEPT ![t] = [op |-> "noteNew", key |-> key,
                                        offset |-> offset, name |-> name,
                                        depth |-> 0]]
    /\ pc' = [pc EXCEPT ![t] = "noteNew"]
    /\ UNCHANGED <<mindState, persistedState, exclusiveMind, activeProcesses,
                   memory, allNotesCache, memoryDwell, triples, aiHandle,
                   aiDreamEntry, ret, limbo, timeScope>>

\* Mind::noteNew(): Memory after the call that found its Outline
noteNewMemory(mem, a) ==
    LET o == mem[a.key]
        n == [name |-> a.name, depth |-> a.depth]
        at == IF NO_PARENT = a.offset THEN 0 ELSE a.offset
    IN  [mem EXCEPT ![a.key] = [o EXCEPT !.notes = InsertAt(o.notes, at, n)]]

\* Mind::noteNew()
noteNew(t) ==
    /\ pc[t] = "noteNew"
    /\ IF HasOutline(memory, arg[t].key)
       THEN /\ memory' = noteNewMemory(memory, arg[t])
            /\ ret' = [op |-> "noteNew", val |-> "note"]
       ELSE \* throw MindForgerException("Outline for given key not found!")
            /\ memory' = memory
            /\ ret' = [op |-> "noteNew", val |-> "not_found"]
    /\ pc' = [pc EXCEPT ![t] = "idle"]
    /\ arg' = [arg EXCEPT ![t] = NoArg]
    /\ UNCHANGED <<mindState, persistedState, exclusiveMind, activeProcesses,
                   allNotesCache, memoryDwell, triples, aiHandle,
                   aiDreamEntry, limbo, timeScope>>

\* ------------------------------------------------------------- collaborators
\* what the inference derives from Memory
InferTriples(mem) == {<<k, "outline">> : k \in DOMAIN mem}

\* the Inference Collaborator finishes the dream started by ai->dream(): it
\* switches the mind state to THINKING and resolves the handle
aiDreamFinish ==
    /\ aiHandle = "pending"
    /\ mindState' = "THINKING"
    /\ \E ok \in BOOLEAN :
          /\ aiHandle' = IF ok THEN "true" ELSE "false"
          /\ triples' = IF ok THEN InferTriples(memory) ELSE triples
    /\ UNCHANGED <<persistedState, exclusiveMind, activeProcesses, memory,
                   allNotesCache, memoryDwell, aiDreamEntry, pc, arg, ret,
                   limbo, timeScope>>

\* a mental process that uses Mind data starts / ends
processStart ==
    /\ activeProcesses < MaxProcesses
    /\ activeProcesses' = activeProcesses + 1
    /\ UNCHANGED <<mindState, persistedState, exclusiveMind, memory,
                   allNotesCache, memoryDwell, triples, aiHandle,
                   aiDreamEntry, pc, arg, ret, limbo, timeScope>>

processEnd ==
    /\ activeProcesses > 0
    /\ activeProcesses' = activeProcesses - 1
    /\ UNCHANGED <<mindState, persistedState, exclusiveMind, memory,
                   allNotesCache, memoryDwell, triples, aiHandle,
                   aiDreamEntry, pc, arg, ret, limbo, timeScope>>

\* the all-notes cache is filled on first read
allNotesCacheFill ==
    /\ allNotesCache = <<>>
    /\ GetAllNotes(memory) # <<>>
    /\ allNotesCache' = GetAllNotes(memory)
    /\ UNCHANGED <<mindState, persistedState, exclusiveMind, activeProcesses,
                   memory, memoryDwell, triples, aiHandle, aiDreamEntry, pc,
                   arg, ret, limbo, timeScope>>

\* a Note is visited
dwell ==
    /\ Len(memoryDwell) < MaxDwell
    /\ \E i \in 1..Len(GetAllNotes(memory)) :
          memoryDwell' = Append(memoryDwell, GetAllNotes(memory)[i])
    /\ UNCHANGED <<mindState, persistedState, exclusiveMind, activeProcesses,
                   memory, allNotesCache, triples, aiHandle, aiDreamEntry, pc,
                   arg, ret, limbo, timeScope>>

\* ------------------------------------------------------------- specification
\* Mind::Mind(): activeProcesses = 0, empty Memory and caches, nobody inside
Init ==
    /\ mindState = "SLEEPING"
    /\ persistedState = "SLEEPING"
    /\ exclusiveMind = NoThread
    /\ activeProcesses = 0
    /\ memory = EmptyMemory
    /\ allNotesCache = <<>>
    /\ memoryDwell = <<>>
    /\ triples = {}
    /\ aiHandle = "none"
    /\ aiDreamEntry = "none"
    /\ limbo = EmptyMemory
    /\ timeScope = NoTimeScope
    /\ pc = [t \in Threads |-> "idle"]
    /\ arg = [t \in Threads |-> NoArg]
    /\ ret = NoRet

Next ==
    \/ \E t \in Threads : learnLock(t)
    \/ \E t \in Threads : learn(t)
    \/ \E t \in Threads : thinkLock(t)
    \/ \E t \in Threads : think(t)
    \/ \E t \in Threads : sleepLock(t)
    \/ \E t \in Threads : sleep(t)
    \/ \E t \in Threads : amnesiaLock(t)
    \/ \E t \in Threads : amnesia(t)
    \/ \E t \in Threads : outlineNewCall(t)
    \/ \E t \in Threads : outlineNew(t)
    \/ \E t \in Threads : noteNewCall(t)
    \/ \E t \in Threads : noteNew(t)
    \/ aiDreamFinish
    \/ processStart
    \/ processEnd
    \/ allNotesCacheFill
    \/ dwell

Spec == Init /\ [][Next]_vars

\* the Inference Collaborator's run ends
FairSpec == Spec /\ WF_vars(aiDreamFinish)

\* ------------------------------------------------------------- Outlines
\* The Outline operations of Mind (outlineNew, outlineClone, outlineForget)
\* called on a Memory that holds an Outline loaded from a file: its
\* key comes from the file, its name from its title, so the two may differ.
MaxLimbo == 1

OutlineTitles == {"a", "b"}
OutlineKeys == OutlineTitles \X KeyIndexes

\* Memory::forget(outline)
MemoryForget(mem, key) == [k \in DOMAIN mem \ {key} |-> mem[k]]

\* Memory::createLimboKey(name): a key in limbo no forgotten Outline has
LimboKeys(name) == {<<"limbo", name, i>> : i \in 0..(MaxLimbo - 1)}

HasFreeLimboKey(lim, name) == \E k \in LimboKeys(name) : k \notin DOMAIN lim

CreateLimboKey(lim, name) ==
    LET free == {k \in LimboKeys(name) : k \notin DOMAIN lim}
    IN  CHOOSE k \in free : \A j \in free : k[3] <= j[3]

\* moveFile(outlineKey, k): the Outline's file is kept under the limbo key
MoveFile(lim, k, outline) == Remember(lim, k, outline)

\* a thread calls outlineClone(outlineKey)
outlineCloneCall(t) ==
    /\ pc[t] = "idle"
    /\ \E key \in OutlineKeys :
          arg' = [arg EXCEPT ![t] = [op |-> "outlineClone", key |-> key]]
    /\ pc' = [pc EXCEPT ![t] = "outlineClone"]
    /\ UNCHANGED <<mindState, persistedState, exclusiveMind, activeProcesses,
                   memory, allNotesCache, memoryDwell, triples, aiHandle,
                   aiDreamEntry, ret, limbo, timeScope>>

\* Mind::outlineClone()
outlineClone(t) ==
    /\ pc[t] = "outlineClone"
    /\ IF HasOutline(memory, arg[t].key)
       THEN LET o == memory[arg[t].key]
            IN  /\ HasFreeKey(memory, o.name)
                /\ memory' = Remember(memory, CreateOutlineKey(memory, o.name), o)
                /\ allNotesCache' = onRemembering(allNotesCache)
                /\ ret' = [op |-> "outlineClone", val |-> "outline"]
       ELSE /\ memory' = memory
            /\ allNotesCache' = allNotesCache
            /\ ret' = [op |-> "outlineClone", val |-> "nullptr"]
    /\ pc' = [pc EXCEPT ![t] = "idle"]
    /\ arg' = [arg EXCEPT ![t] = NoArg]
    /\ UNCHANGED <<mindState, persistedState, exclusiveMind, activeProcesses,
                   memoryDwell, triples, aiHandle, aiDreamEntry, limbo,
                   timeScope>>

\* a thread calls outlineForget(outlineKey)
outlineForgetCall(t) ==
    /\ pc[t] = "idle"
    /\ \E key \in OutlineKeys :
          arg' = [arg EXCEPT ![t] = [op |-> "outlineForget", key |-> key]]
    /\ pc' = [pc EXCEPT ![t] = "outlineForget"]
    /\ UNCHANGED <<mindState, persistedState, exclusiveMind, activeProcesses,
                   memory, allNotesCache, memoryDwell, triples, aiHandle,
                   aiDreamEntry, ret, limbo, timeScope>>

\* outlineForget() that leaves the Outline in Memory
outlineForgetMemory_KeepsOutline(mem, key) == mem

\* Mind::outlineForget(): Memory after the call that found its Outline
outlineForgetMemory(mem, key) == MemoryForget(mem, key)

\* Mind::outlineForget()
outlineForget(t) ==
    /\ pc[t] = "outlineForget"
    /\ IF HasOutline(memory, arg[t].key)
       THEN LET o == memory[arg[t].key]
            IN  /\ HasFreeLimboKey(limbo, o.name)
                /\ memory' = outlineForgetMemory(memory, arg[t].key)
                /\ limbo' = MoveFile(limbo, CreateLimboKey(limbo, o.name), o)
                /\ ret' = [op |-> "outlineForget", val |-> "true"]
       ELSE /\ memory' = memory
            /\ limbo' = limbo
            /\ ret' = [op |-> "outlineForget", val |-> "false"]
    /\ pc' = [pc EXCEPT ![t] = "idle"]
    /\ arg' = [arg EXCEPT ![t] = NoArg]
    /\ UNCHANGED <<mindState, persistedState, exclusiveMind, activeProcesses,
                   allNotesCache, memoryDwell, triples, aiHandle,
                   aiDreamEntry, timeScope>>

\* a Memory that holds at most the Outline of file "a", titled "a" or "b"
LoadedMemories ==
    {EmptyMemory} \cup
    {[k \in {<<"a", 0>>} |->
         [name |-> title, notes |-> <<[name |-> "n", depth |-> 0]>>]] :
       title \in OutlineTitles}

OutlineInit ==
    /\ mindState = "SLEEPING"
    /\ persistedState = "SLEEPING"
    /\ exclusiveMind = NoThread
    /\ activeProcesses = 0
    /\ memory \in LoadedMemories
    /\ allNotesCache = <<>>
    /\ memoryDwell = <<>>
    /\ triples = {}
    /\ aiHandle = "none"
    /\ aiDreamEntry = "none"
    /\ limbo = EmptyMemory
    /\ timeScope = NoTimeScope
    /\ pc = [t \in Threads |-> "idle"]
    /\ arg = [t \in Threads |-> NoArg]
    /\ ret = NoRet

OutlineNext ==
    \/ \E t \in Threads : outlineNewCall(t)
    \/ \E t \in Threads : outlineNew(t)
    \/ \E t \in Threads : outlineCloneCall(t)
    \/ \E t \in Threads : outlineClone(t)
    \/ \E t \in Threads : outlineForgetCall(t)
    \/ \E t \in Threads : outlineForget(t)
    \/ allNotesCacheFill

OutlineSpec == OutlineInit /\ [][OutlineNext]_vars

\* ------------------------------------------------------------- refactoring
\* Mind::noteRefactor() called on a Memory whose Notes are told apart by their
\* names (a Note* of the code is a Note name here).
MaxDepth == 1

NoNote == [name |-> "nullptr", depth |-> 0]

\* the Notes of seq, as a set
NotesOf(notes) == {notes[i] : i \in 1..Len(notes)}

\* the offset of a Note in an Outline's sequence (std::find), 0 when absent
NoteOffset(notes, n) ==
    IF n \in NotesOf(notes)
    THEN CHOOSE i \in 1..Len(notes) :
            notes[i] = n /\ \A j \in 1..(i - 1) : notes[j] # n
    ELSE 0

\* Outline::getNoteChildren(note, children): the run of Notes that follow
\* the Note and are deeper than it
GetNoteChildren(notes, n) ==
    LET i == NoteOffset(notes, n)
        ends == {j \in i..Len(notes) :
                    \A k \in (i + 1)..j : notes[k].depth > n.depth}
        last == CHOOSE j \in ends : \A k \in ends : k <= j
    IN  IF i = 0 THEN <<>> ELSE SubSeq(notes, i + 1, last)

\* Outline::addNotes(notesToAdd, offset)
AddNotes(notes, notesToAdd, offset) ==
    SubSeq(notes, 1, offset) \o notesToAdd \o SubSeq(notes, offset + 1, Len(notes))

\* Outline::removeNote(note): the Note and its children leave the sequence
RemoveNote(notes, n) ==
    LET i == NoteOffset(notes, n)
        children == GetNoteChildren(notes, n)
    IN  IF i = 0 THEN notes
        ELSE SubSeq(notes, 1, i - 1)
               \o SubSeq(notes, i + 1 + Len(children), Len(notes))

\* note->getOutline(): the keys of the Outlines whose sequence has the Note
OutlinesOf(mem, n) == {k \in DOMAIN mem : n \in NotesOf(mem[k].notes)}

\* a thread calls noteRefactor(noteToRefactor, targetOutlineKey)
noteRefactorCall(t) ==
    /\ pc[t] = "idle"
    /\ \E key \in OutlineKeys,
          note \in {NoNote} \cup UNION {NotesOf(memory[k].notes) : k \in DOMAIN memory} :
          arg' = [arg EXCEPT ![t] = [op |-> "noteRefactor", note |-> note,
                                     key |-> key]]
    /\ pc' = [pc EXCEPT ![t] = "noteRefactor"]
    /\ UNCHANGED <<mindState, persistedState, exclusiveMind, activeProcesses,
                   memory, allNotesCache, memoryDwell, triples, aiHandle,
                   aiDreamEntry, ret, limbo, timeScope>>

\* Mind::noteRefactor(): Memory after the call that found its target Outline
noteRefactorMemory(mem, note, targetKey) ==
    LET sources == OutlinesOf(mem, note)
        children == IF sources = {} THEN <<>>
                    ELSE GetNoteChildren(mem[CHOOSE k \in sources : TRUE].notes,
                                         note)
        added == [mem EXCEPT ![targetKey].notes =
                                 AddNotes(@, <<note>> \o children, 0)]
    IN  IF sources = {} THEN added
        ELSE LET source == CHOOSE k \in sources : TRUE
             IN  [added EXCEPT ![source].notes = RemoveNote(@, note)]

\* Mind::noteRefactor()
noteRefactor(t) ==
    /\ pc[t] = "noteRefactor"
    /\ IF arg[t].note # NoNote
       THEN IF HasOutline(memory, arg[t].key)
            THEN /\ memory' = noteRefactorMemory(memory, arg[t].note, arg[t].key)
                 /\ ret' = [op |-> "noteRefactor", val |-> "outline"]
            ELSE \* throw MindForgerException("Outline for given key not found!")
                 /\ memory' = memory
                 /\ ret' = [op |-> "noteRefactor", val |-> "not_found"]
       ELSE \* throw MindForgerException("Note to be refactored is nullptr!")
            /\ memory' = memory
            /\ ret' = [op |-> "noteRefactor", val |-> "nullptr_note"]
    /\ pc' = [pc EXCEPT ![t] = "idle"]
    /\ arg' = [arg EXCEPT ![t] = NoArg]
    /\ UNCHANGED <<mindState, persistedState, exclusiveMind, activeProcesses,
                   allNotesCache, memoryDwell, triples, aiHandle,
                   aiDreamEntry, limbo, timeScope>>

\* the Notes p, q, r in this order, each at some depth
NoteRows ==
    {<<[name |-> "p", depth |-> d[1]], [name |-> "q", depth |-> d[2]],
       [name |-> "r", depth |-> d[3]]>> : d \in [1..3 -> 0..MaxDepth]}

\* Memories that hold the Notes p, q, r: the first Notes of the row in
\* Outline ("a",0), the others in Outline ("b",0), which may be missing when
\* it has none of them
RefactorMemories ==
    {[k \in OutlineKeys |->
         IF k = <<"a", 0>>
         THEN [name |-> "a", notes |-> SubSeq(row, 1, split)]
         ELSE [name |-> "b", notes |-> SubSeq(row, split + 1, 3)]] :
       row \in NoteRows, split \in 0..3}
    \cup {[k \in {<<"a", 0>>} |-> [name |-> "a", notes |-> row]] : row \in NoteRows}

RefactorInit ==
    /\ mindState = "SLEEPING"
    /\ persistedState = "SLEEPING"
    /\ exclusiveMind = NoThread
    /\ activeProcesses = 0
    /\ memory \in RefactorMemories
    /\ allNotesCache = <<>>
    /\ memoryDwell = <<>>
    /\ triples = {}
    /\ aiHandle = "none"
    /\ aiDreamEntry = "none"
    /\ limbo = EmptyMemory
    /\ timeScope = NoTimeScope
    /\ pc = [t \in Threads |-> "idle"]
    /\ arg = [t \in Threads |-> NoArg]
    /\ ret = NoRet

RefactorNext ==
    \/ \E t \in Threads : noteRefactorCall(t)
    \/ \E t \in Threads : noteRefactor(t)

RefactorSpec == RefactorInit /\ [][RefactorNext]_vars

\* ------------------------------------------------------------- searching
\* Mind::findNoteFts() called on a Memory whose Outlines and Notes have names
\* and descriptions. A string is a sequence of characters, a string* of a
\* description is <<>> (nullptr) or <<string>>.
MaxSearchNotes == 2

\* tolower() of a character
ToLower(c) == IF c = "N" THEN "n" ELSE IF c = "X" THEN "x" ELSE c

\* stringToLower(from, to)
stringToLower(str) == [i \in 1..Len(str) |-> ToLower(str[i])]

\* str.find(regexp) != string::npos
Find(str, regexp) ==
    \E i \in 0..(Len(str) - Len(regexp)) :
       SubSeq(str, i + 1, i + Len(regexp)) = regexp

\* TimeScopeAspect::isOutOfScope(note)
IsOutOfScope(ts, note) == note.modified < ts.timePoint

TimeScopes == {NoTimeScope, [enabled |-> TRUE, timePoint |-> 1]}

\* the string findNoteFts looks for the pattern in
Haystack(str, ignoreCase) == IF ignoreCase THEN stringToLower(str) ELSE str

\* the description blocks the pattern is found in
FoundBlocks(description, regexp, ignoreCase) ==
    {i \in 1..Len(description) :
        /\ description[i] # <<>>
        /\ Find(Haystack(description[i][1], ignoreCase), regexp)}

\* findNoteFts() that goes on to the next description block after a match
Pushes_NoBreak(name, description, regexp, ignoreCase) ==
    IF Find(Haystack(name, ignoreCase), regexp)
    THEN 1
    ELSE Cardinality(FoundBlocks(description, regexp, ignoreCase))

\* Mind::findNoteFts(result, ...): how often a unit (the Outline descriptor
\* or a Note) is pushed to the result
Pushes(name, description, regexp, ignoreCase) ==
    IF Find(Haystack(name, ignoreCase), regexp)
    THEN 1
    ELSE IF FoundBlocks(description, regexp, ignoreCase) # {} THEN 1 ELSE 0

Repeat(e, n) == [i \in 1..n |-> e]

\* Mind::findNoteFts(result, ...): the loop over the Notes of the Outline,
\* from the Note at offset i on; a Note is <<key, offset>> in the result
RECURSIVE findNoteFtsNotes(_, _, _, _, _, _)
findNoteFtsNotes(regexp, ignoreCase, key, notes, ts, i) ==
    IF i > Len(notes) THEN <<>>
    ELSE LET note == notes[i]
             found ==
                 IF ignoreCase /\ ts.enabled /\ IsOutOfScope(ts, note)
                 THEN <<>>
                 ELSE Repeat(<<key, i>>,
                             Pushes(note.name, note.description, regexp,
                                    ignoreCase))
         IN  found \o findNoteFtsNotes(regexp, ignoreCase, key, notes, ts, i + 1)

\* Mind::findNoteFts(result, regexp, ignoreCase, outline); the Outline
\* descriptor is <<key, 0>> in the result
findNoteFtsOutline(regexp, ignoreCase, key, outline, ts) ==
    Repeat(<<key, 0>>,
           Pushes(outline.name, outline.description, regexp, ignoreCase))
      \o findNoteFtsNotes(regexp, ignoreCase, key, outline.notes, ts, 1)

\* Memory::getOutlines(): the keys of the Outlines, in Memory's order
GetOutlines(mem) ==
    SelectSeq(<<<<"a", 0>>, <<"b", 0>>>>, LAMBDA k : k \in DOMAIN mem)

RECURSIVE findNoteFtsOutlines(_, _, _, _, _)
findNoteFtsOutlines(regexp, ignoreCase, mem, keys, ts) ==
    IF keys = <<>> THEN <<>>
    ELSE findNoteFtsOutline(regexp, ignoreCase, Head(keys), mem[Head(keys)], ts)
           \o findNoteFtsOutlines(regexp, ignoreCase, mem, Tail(keys), ts)

NoScope == <<"nullptr", 0>>

\* findNoteFts() that answers from the all-notes cache when it is filled
findNoteFtsResult_FromCache(mem, cache, ts, regexp, ignoreCase, scope) ==
    IF cache # <<>>
    THEN <<>>
    ELSE LET r == IF ignoreCase THEN stringToLower(regexp) ELSE regexp
         IN  IF scope # NoScope
             THEN findNoteFtsOutline(r, ignoreCase, scope, mem[scope], ts)
             ELSE findNoteFtsOutlines(r, ignoreCase, mem, GetOutlines(mem), ts)

\* Mind::findNoteFts(regexp, ignoreCase, scope): the result
findNoteFtsResult(mem, cache, ts, regexp, ignoreCase, scope) ==
    LET r == IF ignoreCase THEN stringToLower(regexp) ELSE regexp
    IN  IF scope # NoScope
        THEN findNoteFtsOutline(r, ignoreCase, scope, mem[scope], ts)
        ELSE findNoteFtsOutlines(r, ignoreCase, mem, GetOutlines(mem), ts)

Patterns == {<<"n">>, <<"N">>}

\* a thread calls findNoteFts(regexp, ignoreCase, scope)
findNoteFtsCall(t) ==
    /\ pc[t] = "idle"
    /\ \E regexp \in Patterns, ignoreCase \in BOOLEAN,
          scope \in {NoScope, <<"a", 0>>} :
          /\ scope # NoScope => HasOutline(memory, scope)
          /\ arg' = [arg EXCEPT ![t] = [op |-> "findNoteFts", regexp |-> regexp,
                                        ignoreCase |-> ignoreCase,
                                        scope |-> scope]]
    /\ pc' = [pc EXCEPT ![t] = "findNoteFts"]
    /\ UNCHANGED <<mindState, persistedState, exclusiveMind, activeProcesses,
                   memory, allNotesCache, memoryDwell, triples, aiHandle,
                   aiDreamEntry, ret, limbo, timeScope>>

\* Mind::findNoteFts(regexp, ignoreCase, scope)
findNoteFts(t) ==
    /\ pc[t] = "findNoteFts"
    /\ allNotesCache' = <<>>
    /\ ret' = [op |-> "findNoteFts",
               query |-> arg[t],
               val |-> findNoteFtsResult(memory, allNotesCache, timeScope,
                                         arg[t].regexp, arg[t].ignoreCase,
                                         arg[t].scope)]
    /\ pc' = [pc EXCEPT ![t] = "idle"]
    /\ arg' = [arg EXCEPT ![t] = NoArg]
    /\ UNCHANGED <<mindState, persistedState, exclusiveMind, activeProcesses,
                   memory, memoryDwell, triples, aiHandle, aiDreamEntry,
                   limbo, timeScope>>

\* descriptions: none; a nullptr and "xn"; "Nx" and "xn"
NoDescription == <<>>
NullThenMatch == << <<>>, << <<"x", "n">> >> >>
TwoMatches == << << <<"N", "x">> >>, << <<"x", "n">> >> >>

\* Notes: the pattern in the name and in two blocks (recent); in two blocks
\* (old); behind a nullptr block and in lower case only (recent)
SearchNotes ==
    {[name |-> <<"N", "x">>, description |-> TwoMatches, modified |-> 1],
     [name |-> <<"x">>, description |-> TwoMatches, modified |-> 0],
     [name |-> <<"x">>, description |-> NullThenMatch, modified |-> 1]}

SearchNoteRows ==
    UNION {[1..n -> SearchNotes] : n \in 1..MaxSearchNotes}

\* Memories with Outline ("a",0), its name and description with or without
\* the pattern, and Outline ("b",0)
SearchMemories ==
    {[k \in OutlineKeys |->
         IF k = <<"a", 0>>
         THEN [name |-> head[1], description |-> head[2], notes |-> row]
         ELSE [name |-> <<"x", "n">>, description |-> NoDescription,
               notes |-> <<[name |-> <<"x">>, description |-> TwoMatches,
                            modified |-> 0]>>]] :
       head \in {<< <<"N", "x">>, TwoMatches >>, << <<"x">>, TwoMatches >>,
                 << <<"x">>, NoDescription >>},
       row \in SearchNoteRows}

SearchInit ==
    /\ mindState = "SLEEPING"
    /\ persistedState = "SLEEPING"
    /\ exclusiveMind = NoThread
    /\ activeProcesses = 0
    /\ memory \in SearchMemories
    /\ allNotesCache = <<>>
    /\ memoryDwell = <<>>
    /\ triples = {}
    /\ aiHandle = "none"
    /\ aiDreamEntry = "none"
    /\ limbo = EmptyMemory
    /\ timeScope \in TimeScopes
    /\ pc = [t \in Threads |-> "idle"]
    /\ arg = [t \in Threads |-> NoArg]
    /\ ret = NoRet

SearchNext ==
    \/ \E t \in Threads : findNoteFtsCall(t)
    \/ \E t \in Threads : findNoteFts(t)
    \/ allNotesCacheFill

SearchSpec == SearchInit /\ [][SearchNext]_vars

\* ------------------------------------------------------------- properties
\* the step in which thread t's call of op runs its body and returns
Returns(t, op) == pc[t] = op /\ pc'[t] = "idle"

StructuralOps == {"outlineNew", "noteNew"}

CachesEmpty == allNotesCache = <<>> /\ memoryDwell = <<>> /\ triples = {}

TypeOK ==
    /\ mindState \in MindStates
    /\ exclusiveMind \in Threads \cup {NoThread}
    /\ activeProcesses \in 0..MaxProcesses
    /\ aiHandle \in {"none", "pending", "true", "false"}
    /\ pc \in [Threads -> {"idle"} \cup GuardedOps \cup StructuralOps]
    /\ \A k \in DOMAIN memory : Len(memory[k].notes) \in 1..MaxNotes
    /\ Len(memoryDwell) <= MaxDwell

\* C1: while the mind state is DREAMING no step changes an Outline of Memory
\* (no structural operation mutates the graph during the inference pass).
C1_NoMutationWhileDreaming ==
    [][mindState = "DREAMING" => memory' = memory]_vars

\* C2: a sleep or amnesia call whose body runs while the state is DREAMING
\* returns false and leaves the state DREAMING and the all-notes, memory-dwell
\* and triples caches and Memory as they were.
C2_SleepAmnesiaRefusedWhileDreaming ==
    [][\A t \in Threads :
          (mindState = "DREAMING" /\ (Returns(t, "sleep") \/ Returns(t, "amnesia")))
          => /\ ret'.val = "false"
             /\ mindState' = "DREAMING"
             /\ UNCHANGED <<allNotesCache, memoryDwell, triples, memory>>]_vars

C2_Witness ==
    /\ mindState = "DREAMING"
    /\ ret.op \in {"sleep", "amnesia"}
    /\ ret.val = "false"
    /\ allNotesCache # <<>>
    /\ memory # EmptyMemory

C4_ThinkLeavesDreaming ==
    /\ [][(aiHandle = "pending" /\ aiHandle' # "pending")
            => (aiHandle' \in {"true", "false"} /\ mindState' # "DREAMING")]_vars
    /\ [](aiHandle \in {"true", "false"} => mindState # "DREAMING")
    /\ (mindState = "DREAMING") ~> (mindState = "THINKING")

C4_Witness ==
    /\ ret = [op |-> "think", val |-> "ai_handle"]
    /\ aiHandle = "false"
    /\ mindState = "THINKING"

\* C5: a think call made when the state is not SLEEPING returns an already
\* resolved handle with value false, does not call the Ai's dream(), and
\* leaves the state, Memory and the caches as they were.
C5_ThinkRefusedUnlessSleeping ==
    [][\A t \in Threads :
          (mindState # "SLEEPING" /\ Returns(t, "think"))
          => /\ ret' = [op |-> "think", val |-> "resolved_false"]
             /\ UNCHANGED <<mindState, memory, allNotesCache, memoryDwell,
                            triples, aiHandle, aiDreamEntry>>]_vars

C5_Witness ==
    /\ ret = [op |-> "think", val |-> "resolved_false"]
    /\ mindState = "THINKING"
    /\ memory # EmptyMemory
    /\ allNotesCache # <<>>

\* C6: sleep returns true only from a state that is not DREAMING with no active
\* process, and then the state is SLEEPING and the three caches are empty;
\* whenever it returns false the state and the three caches are as before.
C6_SleepAllOrNothing ==
    [][\A t \in Threads :
          Returns(t, "sleep")
          => /\ ret'.val \in {"true", "false"}
             /\ ret'.val = "true"
                  => /\ mindState # "DREAMING"
                     /\ activeProcesses = 0
                     /\ mindState' = "SLEEPING"
                     /\ CachesEmpty'
             /\ ret'.val = "false"
                  => UNCHANGED <<mindState, allNotesCache, memoryDwell,
                                 triples>>]_vars

\* the Ai declined: sleep returned false in THINKING with no active process
C6_Witness ==
    /\ ret = [op |-> "sleep", val |-> "false"]
    /\ mindState = "THINKING"
    /\ activeProcesses = 0
    /\ allNotesCache # <<>>
    /\ memoryDwell # <<>>
    /\ triples # {}

\* C7: after an amnesia call that returns true the state is SLEEPING, the
\* three caches are empty and Memory is empty, also when the Ai declined to
\* sleep; an amnesia call that returns false leaves Memory as it was.
C7_AmnesiaSleepsFirst ==
    [][\A t \in Threads :
          Returns(t, "amnesia")
          => /\ ret'.val = "true"
                  => /\ mindState' = "SLEEPING"
                     /\ CachesEmpty'
                     /\ memory' = EmptyMemory
             /\ ret'.val = "false" => memory' = memory]_vars

\* C8: a learn call made when the state is not DREAMING and no process is
\* active returns true, leaves Memory freshly reloaded and the mind state
\* equal to the state before the call; otherwise it returns false and changes
\* nothing.
C8_LearnKeepsState ==
    [][\A t \in Threads :
          Returns(t, "learn")
          => IF mindState # "DREAMING" /\ activeProcesses = 0
             THEN /\ ret'.val = "true"
                  /\ memory' = MemoryLearn(MemoryAmnesia(memory))
                  /\ mindState' = mindState
             ELSE /\ ret'.val = "false"
                  /\ UNCHANGED <<mindState, memory, allNotesCache, memoryDwell,
                                 triples>>]_vars

\* C9: while a structural operation is in flight, sleep, learn and amnesia
\* return false and neither clear a cache nor reset or reload Memory.
C9_NoSleepDuringEdit ==
    [][\A t \in Threads :
          (/\ Returns(t, "sleep") \/ Returns(t, "learn") \/ Returns(t, "amnesia")
           /\ \E u \in Threads : pc[u] \in StructuralOps)
          => /\ ret'.val = "false"
             /\ UNCHANGED <<memory, allNotesCache, memoryDwell, triples>>]_vars

\* C10: at most one thread is inside the guarded section of learn, think,
\* sleep or amnesia, and the one inside holds the mutex.
C10_MutualExclusion ==
    /\ Cardinality({t \in Threads : pc[t] \in GuardedOps}) <= 1
    /\ \A t \in Threads : pc[t] \in GuardedOps => exclusiveMind = t

\* a thread is inside a guarded section right after another guarded call
C10_Witness ==
    \E t \in Threads :
        /\ pc[t] \in GuardedOps
        /\ exclusiveMind = t
        /\ ret.op \in GuardedOps \ {pc[t]}

\* C11: a structural operation that changed Memory returns with the all-notes
\* cache empty, and a populated all-notes cache holds the Notes of the Memory
\* of the same state, never those of a Memory before the last mutation.
C11_CacheInvalidatedByMutation ==
    [][/\ \A t \in Threads :
             ((\E op \in StructuralOps : Returns(t, op)) /\ memory' # memory)
             => allNotesCache' = <<>>
       /\ allNotesCache' # <<>> => allNotesCache' = GetAllNotes(memory')]_vars

\* C19: the mind state changes only from SLEEPING to DREAMING by a returning
\* think, from DREAMING to THINKING by the Ai finishing its dream, and from a
\* state other than DREAMING to SLEEPING by a returning sleep, amnesia or learn.
C19_OnlyLegalTransitions ==
    [][mindState' # mindState =>
          \/ /\ mindState = "SLEEPING" /\ mindState' = "DREAMING"
             /\ \E t \in Threads : Returns(t, "think")
          \/ /\ mindState = "DREAMING" /\ mindState' = "THINKING"
             /\ aiHandle = "pending" /\ aiHandle' # "pending"
             /\ pc' = pc
          \/ /\ mindState # "DREAMING" /\ mindState' = "SLEEPING"
             /\ \E t \in Threads :
                   \/ Returns(t, "sleep")
                   \/ Returns(t, "amnesia")
                   \/ Returns(t, "learn")]_vars

C19_Witness ==
    /\ mindState = "SLEEPING"
    /\ aiDreamEntry = "DREAMING"
    /\ aiHandle \in {"true", "false"}
    /\ ret.op \in {"sleep", "amnesia", "learn"}
    /\ ret.val = "true"

\* C16: a call of outlineClone or outlineForget whose key names no Outline of
\* Memory reports a not-found fault instead of returning an ordinary value,
\* and leaves Memory and limbo as they were.
C16_AbsentKeyIsFault ==
    [][\A t \in Threads :
          (/\ Returns(t, "outlineClone") \/ Returns(t, "outlineForget")
           /\ ~HasOutline(memory, arg[t].key))
          => /\ ret'.val = "not_found"
             /\ memory' = memory
             /\ limbo' = limbo]_vars

\* C17: an outlineForget that finds its Outline returns true, takes exactly
\* that Outline out of Memory and keeps its data unchanged under a new limbo
\* key; an outlineForget of an absent key returns false and changes neither
\* Memory nor limbo.
C17_ForgetIsSoftDelete ==
    [][\A t \in Threads :
          Returns(t, "outlineForget") =>
             LET key == arg[t].key
             IN  IF HasOutline(memory, key)
                 THEN /\ ret' = [op |-> "outlineForget", val |-> "true"]
                      /\ ~HasOutline(memory', key)
                      /\ DOMAIN memory' = DOMAIN memory \ {key}
                      /\ \A k \in DOMAIN memory' : memory'[k] = memory[k]
                      /\ \E k \in DOMAIN limbo' \ DOMAIN limbo :
                            /\ k[1] = "limbo"
                            /\ limbo'[k] = memory[key]
                            /\ DOMAIN limbo' = DOMAIN limbo \cup {k}
                      /\ \A j \in DOMAIN limbo : limbo'[j] = limbo[j]
                 ELSE /\ ret' = [op |-> "outlineForget", val |-> "false"]
                      /\ memory' = memory
                      /\ limbo' = limbo]_vars

C17_Witness ==
    /\ ret = [op |-> "outlineForget", val |-> "true"]
    /\ ~HasOutline(memory, <<"a", 0>>)
    /\ HasOutline(memory, <<"b", 0>>)
    /\ \E k \in DOMAIN limbo : limbo[k].name = "b"

\* C18: an outlineNew that returns has remembered one new Outline under a key
\* no Outline of Memory had, has left every other Outline as it was, and the
\* new Outline has at least one Note: exactly the default Note when neither a
\* stencil nor the caller gave it Notes.
C18_NewOutlineHasNote ==
    [][\A t \in Threads :
          Returns(t, "outlineNew") =>
             \E key \in DOMAIN memory' \ DOMAIN memory :
                /\ DOMAIN memory' = DOMAIN memory \cup {key}
                /\ \A k \in DOMAIN memory : memory'[k] = memory[k]
                /\ Len(memory'[key].notes) >= 1
                /\ arg[t].stencil.notes = <<>>
                      => memory'[key].notes = <<DefaultNote>>]_vars

C18_Witness ==
    /\ ret.op = "outlineNew"
    /\ HasOutline(memory, <<"a", 0>>)
    /\ HasOutline(memory, <<"b", 0>>)
    /\ memory[<<"a", 0>>].notes = <<DefaultNote>>
    /\ memory[<<"b", 0>>].notes # <<DefaultNote>>

\* the places (Outline key, offset) at which Memory holds a Note
Occurrences(mem, n) ==
    UNION {{<<k, i>> : i \in {j \in 1..Len(mem[k].notes) : mem[k].notes[j] = n}} :
             k \in DOMAIN mem}

\* a noteRefactor of thread t that returns having moved a Note of Memory
\* into an Outline of Memory
Refactors(t) ==
    /\ Returns(t, "noteRefactor")
    /\ arg[t].note # NoNote
    /\ HasOutline(memory, arg[t].key)
    /\ OutlinesOf(memory, arg[t].note) # {}

\* C12: a noteRefactor that finds its target Outline leaves the number of
\* Notes of the source Outline plus that of the target Outline as it was.
C12_RefactorConservesNotes ==
    [][\A t \in Threads :
          Refactors(t) =>
             LET source == CHOOSE k \in OutlinesOf(memory, arg[t].note) : TRUE
                 target == arg[t].key
             IN  Len(memory'[source].notes) + Len(memory'[target].notes)
                   = Len(memory[source].notes) + Len(memory[target].notes)]_vars

\* C20: a noteRefactor into another Outline puts the Note and the run of
\* deeper Notes that follows it, in their order, at the head of the target
\* and takes exactly them out of the source; after every noteRefactor, also
\* one into the Note's own Outline, each Note of Memory is at exactly one
\* place of exactly one Outline.
C20_RefactorMovesSubtree ==
    [][\A t \in Threads :
          Refactors(t) =>
             LET note == arg[t].note
                 source == CHOOSE k \in OutlinesOf(memory, note) : TRUE
                 target == arg[t].key
                 notes == memory[source].notes
                 first == CHOOSE i \in 1..Len(notes) : notes[i] = note
                 last == CHOOSE j \in first..Len(notes) :
                            /\ \A k \in (first + 1)..j :
                                  notes[k].depth > note.depth
                            /\ j < Len(notes) => notes[j + 1].depth <= note.depth
             IN  /\ source # target =>
                      /\ memory'[target].notes
                           = SubSeq(notes, first, last) \o memory[target].notes
                      /\ memory'[source].notes
                           = SubSeq(notes, 1, first - 1)
                               \o SubSeq(notes, last + 1, Len(notes))
                 /\ \A k \in DOMAIN memory \ {source, target} :
                       memory'[k] = memory[k]
                 /\ DOMAIN memory' = DOMAIN memory
                 /\ \A k \in DOMAIN memory :
                       \A n \in NotesOf(memory[k].notes) :
                          Cardinality(Occurrences(memory', n)) = 1]_vars

\* the units a search looks at: the descriptor <<key, 0>> and the Notes
\* <<key, offset>> of the Outline in scope, or of every Outline of Memory
SearchedUnits(mem, query) ==
    {u \in (DOMAIN mem) \X (0..MaxSearchNotes) :
        /\ query.scope # NoScope => u[1] = query.scope
        /\ u[2] <= Len(mem[u[1]].notes)}

\* the Outline or Note a unit stands for
UnitOf(mem, u) == IF u[2] = 0 THEN mem[u[1]] ELSE mem[u[1]].notes[u[2]]

\* the name or a description block that is present contains the pattern,
\* both taken in lower case when the case is ignored
Contains(unit, query) ==
    LET fold(str) == IF query.ignoreCase
                     THEN [i \in 1..Len(str) |->
                             IF str[i] = "N" THEN "n"
                             ELSE IF str[i] = "X" THEN "x" ELSE str[i]]
                     ELSE str
        pattern == fold(query.regexp)
        within(str) == LET text == fold(str)
                       IN  \E i \in 1..Len(str), j \in 1..Len(str) :
                              SubSeq(text, i, j) = pattern
    IN  \/ within(unit.name)
        \/ \E b \in 1..Len(unit.description) :
              unit.description[b] # <<>> /\ within(unit.description[b][1])

\* C13: with the time scope enabled, the result of a search holds no Note
\* modified before the time point of the scope, whatever the case mode and
\* the scope of the search.
C13_SearchRespectsTimeScope ==
    [][\A t \in Threads :
          (Returns(t, "findNoteFts") /\ timeScope.enabled)
          => \A e \in 1..Len(ret'.val) :
                LET u == ret'.val[e]
                IN  u[2] > 0
                    => UnitOf(memory, u).modified >= timeScope.timePoint]_vars

====
